---------------------------- MODULE Spec2Model ----------------------------
(***************************************************************************)
(* HC-SR04 ultrasonic distance sampler (src/src/main.cpp).                 *)
(*                                                                         *)
(* The sketch is a single sequential thread: setup() runs once, then       *)
(* loop() is called for ever.  Every statement of setup() and loop() is    *)
(* one action; the blocking pulseIn() is split into its call and its       *)
(* return.  The serial byte stream, a microsecond clock and a trace of     *)
(* the calls made are recorded for a window of MaxCycles consecutive       *)
(* cycles; the window restarts with the first statement of the cycle that  *)
(* follows it, the program state (globals, pin registers) carrying over.   *)
(***************************************************************************)
EXTENDS Integers, Sequences, FiniteSets, TLC

VARIABLES
    pc,              \* the statement the thread executes next
    trigPin,         \* global int trigPin
    echoPin,         \* global int echoPin
    duration,        \* global long duration
    distance,        \* global long distance
    pinModes,        \* direction register of each pin
    pinLevel,        \* output latch of each pin
    serialBaud,      \* 0 while Serial is closed, else its rate
    doubleBits,      \* significand width of `double` on the target
    serialOut,       \* characters transmitted in the window
    clock,           \* microseconds elapsed in the window
    cycles,          \* calls of loop() completed in the window
    trace,           \* calls made in the window, in order
    setupRuns        \* completed executions of setup()

vars == << pc, trigPin, echoPin, duration, distance, pinModes, pinLevel,
           serialBaud, doubleBits, serialOut, clock, cycles, trace, setupRuns >>

---------------------------------------------------------------------------
(* Bounds of the model *)

\* consecutive cycles recorded in one window
MaxCycles == 2

---------------------------------------------------------------------------
(* Program constants *)

TrigPinInit == 9
EchoPinInit == 10
BaudRate == 9600
SettleMicros == 2
PulseMicros == 10
PauseMillis == 500

Pins == {TrigPinInit, EchoPinInit}

\* Echo durations pulseIn() may return (microseconds): a timeout, the
\* spec's two examples (17 cm and 42 cm), and two long echoes.
EchoDurations == {0, 1000, 2449, 100000, 136793}

\* Time pulseIn() spends before the echo pulse rises (microseconds).
EchoLeads == {0, 450}

\* Significand widths of `double`: 24 (AVR, double is binary32) and 53
\* (binary64 targets).
DoubleWidths == {24, 53}

---------------------------------------------------------------------------
(* Floating-point arithmetic of  (duration * 0.0343) / 2                   *)
(* Naturals beyond 31 bits are kept as little-endian base-1024 limbs.      *)

\* The literal 0.0343 rounded to the nearest double: its significand, as
\* limbs, and the power of two that scales it.
\*   binary32:          9207336 * 2^-28
\*   binary64: 4943150951001856 * 2^-57
Significand(p) ==
    IF p = 24 THEN << 552, 799, 8, 0, 0, 0 >>
              ELSE << 768, 91, 72, 788, 399, 4 >>

Scale(p) == IF p = 24 THEN 28 ELSE 57

\* The exact product d * significand as 8 limbs, for 0 <= d < 2^21
\* (long -> double is exact there).
Product(d, p) ==
    LET m  == Significand(p)
        t1 == d * m[1]
        t2 == d * m[2] + (t1 \div 1024)
        t3 == d * m[3] + (t2 \div 1024)
        t4 == d * m[4] + (t3 \div 1024)
        t5 == d * m[5] + (t4 \div 1024)
        t6 == d * m[6] + (t5 \div 1024)
        t7 == t6 \div 1024
        t8 == t7 \div 1024
    IN  << t1 % 1024, t2 % 1024, t3 % 1024, t4 % 1024,
           t5 % 1024, t6 % 1024, t7 % 1024, t8 % 1024 >>

\* bit i (from 0) of a natural kept as limbs
Bit(limbs, i) == (limbs[(i \div 10) + 1] \div (2 ^ (i % 10))) % 2

\* number of significant bits
BitLength(limbs) ==
    IF \A j \in 1..Len(limbs) : limbs[j] = 0 THEN 0
    ELSE LET top == CHOOSE j \in 1..Len(limbs) :
                       limbs[j] # 0 /\ \A k \in (j + 1)..Len(limbs) : limbs[k] = 0
         IN  10 * (top - 1)
                + CHOOSE b \in 1..10 : 2 ^ (b - 1) <= limbs[top] /\ limbs[top] < 2 ^ b

\* limbs % 2^s, for s <= 30
LowBits(limbs, s) == (limbs[1] + 1024 * limbs[2] + 1024 * 1024 * limbs[3]) % (2 ^ s)

\* Rounding the product to p significant bits, ties to even, adds one unit
\* in the last kept place when the s dropped bits exceed half a unit, or
\* equal it and the last kept bit is odd.
RoundsUp(limbs, p) ==
    LET s == BitLength(limbs) - p
    IN  /\ s >= 1
        /\ \/ LowBits(limbs, s) > 2 ^ (s - 1)
           \/ LowBits(limbs, s) = 2 ^ (s - 1) /\ Bit(limbs, s) = 1

\* limbs \div 2^k, for a quotient below 2^20
ShiftRight(limbs, k) ==
    LET a == k \div 10
        b == k % 10
        limb(j) == IF j <= Len(limbs) THEN limbs[j] ELSE 0
    IN  (limb(a + 1) \div (2 ^ b)) + limb(a + 2) * (2 ^ (10 - b))
            + limb(a + 3) * (2 ^ (20 - b))

\* long -> double, * 0.0343 (rounded once), / 2 (exact), -> long
\* (truncated): the rounded product divided by 2^(Scale + 1).  Rounding up
\* reaches the integer part only when every bit between the last kept
\* place and the binary point of the halved product is set.
ToDistance(d, p) ==
    LET product == Product(d, p)
        point == Scale(p) + 1
        s == BitLength(product) - p
        carries == /\ RoundsUp(product, p)
                   /\ \A i \in s..(point - 1) : Bit(product, i) = 1
    IN  ShiftRight(product, point) + (IF carries THEN 1 ELSE 0)

---------------------------------------------------------------------------
(* Serial text *)

Label == << "D", "i", "s", "t", "a", "n", "c", "e", ":", " " >>
Unit == << " ", "c", "m" >>
\* println() ends the line with carriage return, line feed
Newline == << "\r", "\n" >>

DigitChar(k) == << "0", "1", "2", "3", "4", "5", "6", "7", "8", "9" >>[k + 1]

RECURSIVE Digits(_)
Digits(n) ==
    IF n < 10 THEN << DigitChar(n) >>
    ELSE Digits(n \div 10) \o << DigitChar(n % 10) >>

\* Serial.print(long): base 10, a minus sign for a negative value
Decimal(n) == IF n < 0 THEN << "-" >> \o Digits(-n) ELSE Digits(n)

---------------------------------------------------------------------------
(* Trace of the calls made in the window.  An event carries the cycle it   *)
(* belongs to, the call, its argument (for an assignment, the value        *)
(* stored) and the clock: at the call, or, for the return of pulseIn()     *)
(* and the end of delay(), when the thread resumes.                        *)

Ev(op, arg) == [cyc |-> cycles + 1, op |-> op, arg |-> arg, at |-> clock]

\* The first statement of loop() after a full window starts a new one.
Fresh == cycles = MaxCycles

---------------------------------------------------------------------------
Init ==
    /\ pc = "setup_trig"
    /\ trigPin = TrigPinInit
    /\ echoPin = EchoPinInit
    /\ duration = 0
    /\ distance = 0
    /\ pinModes = [p \in Pins |-> "INPUT"]
    /\ pinLevel = [p \in Pins |-> "LOW"]
    /\ serialBaud = 0
    /\ doubleBits \in DoubleWidths
    /\ serialOut = << >>
    /\ clock = 0
    /\ cycles = 0
    /\ trace = << >>
    /\ setupRuns = 0

(* setup() *)

\* mutant: the mode is set on the wrong pin, pinMode(echoPin, OUTPUT)
SetupTrigModeWrongPin ==
    /\ pc = "setup_trig"
    /\ pinModes' = [pinModes EXCEPT ![echoPin] = "OUTPUT"]
    /\ pc' = "setup_echo"
    /\ UNCHANGED << trigPin, echoPin, duration, distance, pinLevel, serialBaud,
                    doubleBits, serialOut, clock, cycles, trace, setupRuns >>

\* pinMode(trigPin, OUTPUT);
SetupTrigMode ==
    /\ pc = "setup_trig"
    /\ pinModes' = [pinModes EXCEPT ![trigPin] = "OUTPUT"]
    /\ pc' = "setup_echo"
    /\ UNCHANGED << trigPin, echoPin, duration, distance, pinLevel, serialBaud,
                    doubleBits, serialOut, clock, cycles, trace, setupRuns >>

\* pinMode(echoPin, INPUT);
SetupEchoMode ==
    /\ pc = "setup_echo"
    /\ pinModes' = [pinModes EXCEPT ![echoPin] = "INPUT"]
    /\ pc' = "setup_serial"
    /\ UNCHANGED << trigPin, echoPin, duration, distance, pinLevel, serialBaud,
                    doubleBits, serialOut, clock, cycles, trace, setupRuns >>

\* Serial.begin(9600);  and setup() returns
SetupSerial ==
    /\ pc = "setup_serial"
    /\ serialBaud' = BaudRate
    /\ setupRuns' = setupRuns + 1
    /\ pc' = "trig_low1"
    /\ UNCHANGED << trigPin, echoPin, duration, distance, pinModes, pinLevel,
                    doubleBits, serialOut, clock, cycles, trace >>

(* loop() *)

\* digitalWrite(trigPin, LOW);   (first statement of loop())
TrigLowFirst ==
    /\ pc = "trig_low1"
    /\ pinLevel' = [pinLevel EXCEPT ![trigPin] = "LOW"]
    /\ cycles' = IF Fresh THEN 0 ELSE cycles
    /\ clock' = IF Fresh THEN 0 ELSE clock
    /\ serialOut' = IF Fresh THEN << >> ELSE serialOut
    /\ trace' = IF Fresh
                THEN << [cyc |-> 1, op |-> "digitalWrite", arg |-> "LOW", at |-> 0] >>
                ELSE Append(trace, Ev("digitalWrite", "LOW"))
    /\ pc' = "settle"
    /\ UNCHANGED << trigPin, echoPin, duration, distance, pinModes, serialBaud,
                    doubleBits, setupRuns >>

\* delayMicroseconds(2);
HoldSettle ==
    /\ pc = "settle"
    /\ clock' = clock + SettleMicros
    /\ trace' = Append(trace, Ev("delayMicroseconds", SettleMicros))
    /\ pc' = "trig_high"
    /\ UNCHANGED << trigPin, echoPin, duration, distance, pinModes, pinLevel,
                    serialBaud, doubleBits, serialOut, cycles, setupRuns >>

\* digitalWrite(trigPin, HIGH);
TrigHigh ==
    /\ pc = "trig_high"
    /\ pinLevel' = [pinLevel EXCEPT ![trigPin] = "HIGH"]
    /\ trace' = Append(trace, Ev("digitalWrite", "HIGH"))
    /\ pc' = "pulse"
    /\ UNCHANGED << trigPin, echoPin, duration, distance, pinModes, serialBaud,
                    doubleBits, serialOut, clock, cycles, setupRuns >>

\* mutant: the pulse is held for 2 microseconds, not 10
HoldPulseShort ==
    /\ pc = "pulse"
    /\ clock' = clock + SettleMicros
    /\ trace' = Append(trace, Ev("delayMicroseconds", SettleMicros))
    /\ pc' = "trig_low2"
    /\ UNCHANGED << trigPin, echoPin, duration, distance, pinModes, pinLevel,
                    serialBaud, doubleBits, serialOut, cycles, setupRuns >>

\* delayMicroseconds(10);
HoldPulse ==
    /\ pc = "pulse"
    /\ clock' = clock + PulseMicros
    /\ trace' = Append(trace, Ev("delayMicroseconds", PulseMicros))
    /\ pc' = "trig_low2"
    /\ UNCHANGED << trigPin, echoPin, duration, distance, pinModes, pinLevel,
                    serialBaud, doubleBits, serialOut, cycles, setupRuns >>

\* mutant: the write that ends the pulse is missing
TrigLowSecondSkipped ==
    /\ pc = "trig_low2"
    /\ pc' = "pulse_in"
    /\ UNCHANGED << trigPin, echoPin, duration, distance, pinModes, pinLevel,
                    serialBaud, doubleBits, serialOut, clock, cycles, trace,
                    setupRuns >>

\* digitalWrite(trigPin, LOW);
TrigLowSecond ==
    /\ pc = "trig_low2"
    /\ pinLevel' = [pinLevel EXCEPT ![trigPin] = "LOW"]
    /\ trace' = Append(trace, Ev("digitalWrite", "LOW"))
    /\ pc' = "pulse_in"
    /\ UNCHANGED << trigPin, echoPin, duration, distance, pinModes, serialBaud,
                    doubleBits, serialOut, clock, cycles, setupRuns >>

\* pulseIn(echoPin, HIGH) is entered and blocks
PulseInCall ==
    /\ pc = "pulse_in"
    /\ trace' = Append(trace, Ev("pulseIn", echoPin))
    /\ pc' = "echo_wait"
    /\ UNCHANGED << trigPin, echoPin, duration, distance, pinModes, pinLevel,
                    serialBaud, doubleBits, serialOut, clock, cycles, setupRuns >>

\* mutant: a returned 0 is taken for a failure and pulseIn() is called again
PulseInReturnRetry ==
    /\ pc = "echo_wait"
    /\ \E d \in EchoDurations, lead \in EchoLeads :
          /\ duration' = d
          /\ clock' = clock + lead + d
          /\ trace' = Append(trace, [Ev("duration", d) EXCEPT !.at = clock + lead + d])
          /\ pc' = IF d = 0 THEN "pulse_in" ELSE "compute"
    /\ UNCHANGED << trigPin, echoPin, distance, pinModes, pinLevel, serialBaud,
                    doubleBits, serialOut, cycles, setupRuns >>

\* mutant: a returned 0 leaves the previous duration in place
PulseInReturnKeepsStale ==
    /\ pc = "echo_wait"
    /\ \E d \in EchoDurations, lead \in EchoLeads :
          /\ duration' = IF d = 0 THEN duration ELSE d
          /\ clock' = clock + lead + d
          /\ trace' = Append(trace, [Ev("duration", d) EXCEPT !.at = clock + lead + d])
    /\ pc' = "compute"
    /\ UNCHANGED << trigPin, echoPin, distance, pinModes, pinLevel, serialBaud,
                    doubleBits, serialOut, cycles, setupRuns >>

\* duration = pulseIn(...): the call returns d after the echo's lead time
\* and its high time
PulseInReturn ==
    /\ pc = "echo_wait"
    /\ \E d \in EchoDurations, lead \in EchoLeads :
          /\ duration' = d
          /\ clock' = clock + lead + d
          /\ trace' = Append(trace, [Ev("duration", d) EXCEPT !.at = clock + lead + d])
    /\ pc' = "compute"
    /\ UNCHANGED << trigPin, echoPin, distance, pinModes, pinLevel, serialBaud,
                    doubleBits, serialOut, cycles, setupRuns >>

\* mutant: the new reading is averaged with the previous distance
ComputeDistanceSmoothed ==
    /\ pc = "compute"
    /\ \E cm \in { (distance + ToDistance(duration, doubleBits)) \div 2 } :
          /\ distance' = cm
          /\ trace' = Append(trace, Ev("distance", cm))
    /\ pc' = "print_label"
    /\ UNCHANGED << trigPin, echoPin, duration, pinModes, pinLevel, serialBaud,
                    doubleBits, serialOut, clock, cycles, setupRuns >>

\* distance = (duration * 0.0343) / 2;
ComputeDistance ==
    /\ pc = "compute"
    /\ \E cm \in { ToDistance(duration, doubleBits) } :
          /\ distance' = cm
          /\ trace' = Append(trace, Ev("distance", cm))
    /\ pc' = "print_label"
    /\ UNCHANGED << trigPin, echoPin, duration, pinModes, pinLevel, serialBaud,
                    doubleBits, serialOut, clock, cycles, setupRuns >>

\* Serial.print("Distance: ");
PrintLabel ==
    /\ pc = "print_label"
    /\ serialOut' = serialOut \o Label
    /\ trace' = Append(trace, Ev("print", Label))
    /\ pc' = "print_value"
    /\ UNCHANGED << trigPin, echoPin, duration, distance, pinModes, pinLevel,
                    serialBaud, doubleBits, clock, cycles, setupRuns >>

\* mutant: the raw duration is printed, Serial.print(duration)
PrintValueOfDuration ==
    /\ pc = "print_value"
    /\ serialOut' = serialOut \o Decimal(duration)
    /\ trace' = Append(trace, Ev("print", Decimal(duration)))
    /\ pc' = "print_unit"
    /\ UNCHANGED << trigPin, echoPin, duration, distance, pinModes, pinLevel,
                    serialBaud, doubleBits, clock, cycles, setupRuns >>

\* Serial.print(distance);
PrintValue ==
    /\ pc = "print_value"
    /\ serialOut' = serialOut \o Decimal(distance)
    /\ trace' = Append(trace, Ev("print", Decimal(distance)))
    /\ pc' = "print_unit"
    /\ UNCHANGED << trigPin, echoPin, duration, distance, pinModes, pinLevel,
                    serialBaud, doubleBits, clock, cycles, setupRuns >>

\* Serial.println(" cm");
PrintUnit ==
    /\ pc = "print_unit"
    /\ serialOut' = serialOut \o Unit \o Newline
    /\ trace' = Append(trace, Ev("println", Unit))
    /\ pc' = "pause"
    /\ UNCHANGED << trigPin, echoPin, duration, distance, pinModes, pinLevel,
                    serialBaud, doubleBits, clock, cycles, setupRuns >>

\* mutant: the pause is 500 microseconds, delayMicroseconds(500)
PauseMicroseconds ==
    /\ pc = "pause"
    /\ clock' = clock + PauseMillis
    /\ trace' = Append(trace, [Ev("delay", PauseMillis) EXCEPT !.at = clock + PauseMillis])
    /\ cycles' = cycles + 1
    /\ pc' = "trig_low1"
    /\ UNCHANGED << trigPin, echoPin, duration, distance, pinModes, pinLevel,
                    serialBaud, doubleBits, serialOut, setupRuns >>

\* mutant: the sketch stops after its pause instead of returning from loop()
PauseThenHalt ==
    /\ pc = "pause"
    /\ clock' = clock + PauseMillis * 1000
    /\ trace' = Append(trace, [Ev("delay", PauseMillis) EXCEPT !.at = clock + PauseMillis * 1000])
    /\ cycles' = cycles + 1
    /\ pc' = "halted"
    /\ UNCHANGED << trigPin, echoPin, duration, distance, pinModes, pinLevel,
                    serialBaud, doubleBits, serialOut, setupRuns >>

\* delay(500);  and loop() returns, to be called again
Pause ==
    /\ pc = "pause"
    /\ clock' = clock + PauseMillis * 1000
    /\ trace' = Append(trace, [Ev("delay", PauseMillis) EXCEPT !.at = clock + PauseMillis * 1000])
    /\ cycles' = cycles + 1
    /\ pc' = "trig_low1"
    /\ UNCHANGED << trigPin, echoPin, duration, distance, pinModes, pinLevel,
                    serialBaud, doubleBits, serialOut, setupRuns >>

Next ==
    \/ SetupTrigMode
    \/ SetupEchoMode
    \/ SetupSerial
    \/ TrigLowFirst
    \/ HoldSettle
    \/ TrigHigh
    \/ HoldPulse
    \/ TrigLowSecond
    \/ PulseInCall
    \/ PulseInReturn
    \/ ComputeDistance
    \/ PrintLabel
    \/ PrintValue
    \/ PrintUnit
    \/ Pause

Spec == Init /\ [][Next]_vars

\* The thread always takes its next step, and every pulseIn() returns.
LiveSpec == Spec /\ WF_vars(Next)

---------------------------------------------------------------------------
(* What the window shows *)

SetupPcs == { "setup_trig", "setup_echo", "setup_serial" }

LoopPcs == { "trig_low1", "settle", "trig_high", "pulse", "trig_low2",
             "pulse_in", "echo_wait", "compute", "print_label",
             "print_value", "print_unit", "pause" }

\* positions of loop() after the trigger pulse
AfterPulsePcs == { "pulse_in", "echo_wait", "compute", "print_label",
                   "print_value", "print_unit", "pause" }

\* the calls one execution of loop() makes, in order
CycleOps == << "digitalWrite", "delayMicroseconds", "digitalWrite",
               "delayMicroseconds", "digitalWrite", "pulseIn", "duration",
               "distance", "print", "print", "println", "delay" >>

Events(op) == SelectSeq(trace, LAMBDA e : e.op = op)
CycleTrace(k) == SelectSeq(trace, LAMBDA e : e.cyc = k)
OpsOf(t) == [i \in 1..Len(t) |-> t[i].op]
ArgsOf(t) == [i \in 1..Len(t) |-> t[i].arg]
Writes(t) == SelectSeq(t, LAMBDA e : e.op = "digitalWrite")

\* echo durations returned and distances computed, one per cycle
EchoLog == ArgsOf(Events("duration"))
DistLog == ArgsOf(Events("distance"))

\* cycles of the window that have begun
Started == IF trace = << >> THEN 0 ELSE trace[Len(trace)].cyc

\* The transmitted characters cut at each CR LF: the complete lines and
\* the unterminated rest.
RECURSIVE SplitLines(_, _, _)
SplitLines(s, lines, cur) ==
    IF s = << >> THEN [lines |-> lines, rest |-> cur]
    ELSE IF Len(s) >= 2 /\ s[1] = "\r" /\ s[2] = "\n"
    THEN SplitLines(SubSeq(s, 3, Len(s)), Append(lines, cur), << >>)
    ELSE SplitLines(Tail(s), lines, Append(cur, Head(s)))

Lines == SplitLines(serialOut, << >>, << >>).lines
Rest == SplitLines(serialOut, << >>, << >>).rest

ReportLine(n) == Label \o Decimal(n) \o Unit

\* the characters the traced print calls transmit
RECURSIVE TraceText(_)
TraceText(t) ==
    IF t = << >> THEN << >>
    ELSE LET e == Head(t)
         IN  (IF e.op = "print" THEN e.arg
              ELSE IF e.op = "println" THEN e.arg \o Newline
              ELSE << >>) \o TraceText(Tail(t))

---------------------------------------------------------------------------
(* C1.  Conversion law: after the assignment of line 83 the stored         *)
(* distance is floor(duration * 343 / 20000) in exact arithmetic, for      *)
(* every non-negative duration pulseIn() returned.                         *)
ConversionLaw ==
    pc \in { "print_label", "print_value", "print_unit", "pause" }
        => distance = (duration * 343) \div 20000

---------------------------------------------------------------------------
(* C2.  Report format and count: the serial stream consists of one line    *)
(* "Distance: <N> cm" per completed report, <N> the decimal rendering of   *)
(* the distance computed in that cycle (42 gives "Distance: 42 cm");       *)
(* after k completed cycles there are exactly k lines and nothing else.    *)
ReportFormat ==
    /\ Len(Lines) = cycles + (IF pc = "pause" THEN 1 ELSE 0)
    /\ \A k \in 1..Len(Lines) :
          /\ Lines[k] = ReportLine(DistLog[k])
          /\ DistLog[k] = 42 =>
                Lines[k] = << "D", "i", "s", "t", "a", "n", "c", "e", ":", " ",
                              "4", "2", " ", "c", "m" >>
    /\ pc \notin { "print_value", "print_unit" } => Rest = << >>
    /\ pc = "print_value" => Rest = Label
    /\ pc = "print_unit" => Rest = Label \o Decimal(distance)

ReportFormatWitness ==
    /\ pc = "trig_low1"
    /\ cycles = 2
    /\ Len(Lines) = 2
    /\ DistLog[2] = 42
    /\ Lines[2] = << "D", "i", "s", "t", "a", "n", "c", "e", ":", " ",
                     "4", "2", " ", "c", "m" >>

---------------------------------------------------------------------------
(* C3.  Per-cycle ordering: pulseIn() is entered only after the three      *)
(* trigger writes LOW, HIGH, LOW of that cycle, with the line low; every   *)
(* print of a cycle comes after that cycle's pulseIn() has returned; the   *)
(* stream holds nothing but what those prints sent.                        *)
Ordering ==
    /\ \A k \in 1..Started :
          LET t == CycleTrace(k)
          IN  \A i \in 1..Len(t) :
                 /\ t[i].op = "pulseIn" =>
                       ArgsOf(Writes(SubSeq(t, 1, i - 1))) = << "LOW", "HIGH", "LOW" >>
                 /\ t[i].op \in { "print", "println" } =>
                       \E j \in 1..(i - 1) : t[j].op = "duration"
    /\ pc = "echo_wait" => pinLevel[trigPin] = "LOW"
    /\ serialOut = TraceText(trace)
    /\ Len(Lines) + (IF Rest = << >> THEN 0 ELSE 1) <= Len(EchoLog)

OrderingWitness ==
    /\ pc = "print_value"
    /\ cycles = 1
    /\ Len(EchoLog) = 2
    /\ Rest = Label

---------------------------------------------------------------------------
(* C4.  Trigger pulse shape: each cycle writes the trigger line LOW, HIGH, *)
(* LOW in that order, 2 microseconds between the first two writes and 10   *)
(* between the last two; the line is high only during the 10 microsecond   *)
(* hold and low during the measurement, the report and the pause.          *)
TriggerPulseShape ==
    /\ \A k \in 1..Started :
          LET t == CycleTrace(k)
              w == Writes(t)
          IN  /\ \E n \in 0..3 : ArgsOf(w) = SubSeq(<< "LOW", "HIGH", "LOW" >>, 1, n)
              /\ (k < Started \/ pc \in AfterPulsePcs) =>
                    /\ SubSeq(OpsOf(t), 1, 5) = SubSeq(CycleOps, 1, 5)
                    /\ Len(w) = 3
                    /\ t[2].arg = 2
                    /\ t[4].arg = 10
                    /\ w[2].at - w[1].at = 2
                    /\ w[3].at - w[2].at = 10
    /\ pinLevel[trigPin] = "HIGH" => pc \in { "pulse", "trig_low2" }
    /\ pc \in AfterPulsePcs => pinLevel[trigPin] = "LOW"

TriggerPulseShapeWitness ==
    /\ pc = "echo_wait"
    /\ cycles = 1
    /\ Len(Writes(CycleTrace(2))) = 3
    /\ pinLevel[trigPin] = "LOW"

---------------------------------------------------------------------------
(* C5.  No error path: whatever pulseIn() returns, 0 included, the cycle   *)
(* makes the same calls in the same order with a single pulseIn() (no      *)
(* retry), a returned 0 is reported as "Distance: 0 cm", the thread is     *)
(* always at a statement of the sketch, and it can always take a step.     *)
NoErrorPath ==
    /\ pc \in SetupPcs \cup LoopPcs
    /\ ENABLED Next
    /\ \A k \in 1..Started :
          LET ops == OpsOf(CycleTrace(k))
          IN  /\ ops = SubSeq(CycleOps, 1, Len(ops))
              /\ k <= cycles => ops = CycleOps
    /\ \A k \in 1..Len(Lines) :
          EchoLog[k] = 0 =>
             Lines[k] = << "D", "i", "s", "t", "a", "n", "c", "e", ":", " ",
                           "0", " ", "c", "m" >>

NoErrorPathWitness ==
    /\ cycles = 1
    /\ pc = "settle"
    /\ EchoLog = << 0 >>
    /\ Lines = << ReportLine(0) >>

---------------------------------------------------------------------------
(* C6.  Idempotence: cycles of a window whose measurements returned the    *)
(* same duration produced identical report lines.                          *)
Idempotence ==
    \A i, j \in 1..Len(Lines) : EchoLog[i] = EchoLog[j] => Lines[i] = Lines[j]

IdempotenceWitness ==
    /\ Len(Lines) = 2
    /\ EchoLog[1] = 1000
    /\ EchoLog[2] = 1000
    /\ Lines[1] = Lines[2]

---------------------------------------------------------------------------
(* C7.  Initialization runs once, before the first cycle, and loop() never *)
(* changes it: throughout loop() the trigger line is pin 9, an output, the *)
(* echo line is pin 10, an input, and Serial is open at 9600.              *)
ConfigurationFixed ==
    /\ pc \in LoopPcs =>
          /\ setupRuns = 1
          /\ trigPin = 9
          /\ echoPin = 10
          /\ pinModes[9] = "OUTPUT"
          /\ pinModes[10] = "INPUT"
          /\ serialBaud = 9600
    /\ pc \in SetupPcs =>
          /\ setupRuns = 0
          /\ cycles = 0
          /\ trace = << >>
          /\ serialOut = << >>

ConfigurationFixedWitness ==
    /\ pc = "pause"
    /\ cycles = 1
    /\ setupRuns = 1
    /\ pinModes[trigPin] = "OUTPUT"

---------------------------------------------------------------------------
(* C8.  No terminal state: the thread can always take a step, and when     *)
(* every step it can take is eventually taken (every pulseIn() returns)    *)
(* a report line is completed infinitely often.                            *)
NoTerminalState ==
    /\ [](ENABLED Next)
    /\ [](pc \in LoopPcs => <>(pc = "pause"))
    /\ []<><<PrintUnit>>_vars

NoTerminalStateWitness ==
    /\ pc = "pause"
    /\ cycles = 1
    /\ Len(Lines) = 2

---------------------------------------------------------------------------
(* C9.  Cycle timing: a full cycle lasts at least 500 ms plus the 12       *)
(* microseconds of trigger holds plus the time spent in pulseIn();         *)
(* consecutive report lines are at least 500 ms apart; the pause follows   *)
(* the report and precedes the next cycle's first trigger write.           *)
CycleTiming ==
    /\ \A k \in 1..cycles :
          LET t == CycleTrace(k)
          IN  /\ t[12].op = "delay"
              /\ t[12].at - t[1].at >= 500 * 1000 + 12 + (t[7].at - t[6].at)
              /\ t[12].at >= t[11].at + 500 * 1000
              /\ k < Started => CycleTrace(k + 1)[1].at >= t[12].at
    /\ \A i \in 1..(Len(Events("println")) - 1) :
          Events("println")[i + 1].at - Events("println")[i].at >= 500 * 1000

CycleTimingWitness ==
    /\ Len(Events("println")) = 2
    /\ cycles = 1
    /\ Events("println")[2].at - Events("println")[1].at = 500 * 1000 + 12

---------------------------------------------------------------------------
(* C10.  No cross-cycle contamination: in every cycle duration is written  *)
(* before it is read and distance before it is printed, and the line a     *)
(* cycle reports is determined by the duration measured in that cycle.     *)
NoContamination ==
    /\ pc = "compute" => duration = EchoLog[Len(EchoLog)] /\ Len(EchoLog) = cycles + 1
    /\ pc \in { "print_label", "print_value" } =>
          /\ Len(DistLog) = cycles + 1
          /\ distance = ToDistance(EchoLog[cycles + 1], doubleBits)
    /\ \A k \in 1..Len(Lines) :
          Lines[k] = ReportLine(ToDistance(EchoLog[k], doubleBits))

NoContaminationWitness ==
    /\ Len(Lines) = 2
    /\ EchoLog = << 2449, 0 >>
    /\ Lines = << ReportLine(42), ReportLine(0) >>

=============================================================================
